---- MODULE Spec2Model ----
(***************************************************************************)
(* Model of the Kuaishou API service (app/main.py, app/services.py,        *)
(* app/config.py): the in-memory task registry task_statuses, the          *)
(* background download coroutine perform_download, the status lookup, and  *)
(* the synchronous metadata request.                                       *)
(*                                                                         *)
(* Strings of the source that are not ASCII are rendered by ASCII          *)
(* stand-ins; each definition names the original in its comment.           *)
(***************************************************************************)
EXTENDS Integers, Sequences, FiniteSets, TLC

VARIABLES task_statuses, tasks, response, info_request

vars == <<task_statuses, tasks, response, info_request>>

(***************************************************************************)
(* Bounds and program constants                                            *)
(***************************************************************************)

\* Settings.ks_max_workers (config.py:39), handed to mock_manager.max_workers.
ks_max_workers == 4

\* How many download requests one run of the model issues.
MaxTasks == 3

\* The values uuid.uuid4() may return, and the ids a client may poll.
TaskIds == {"t1", "t2"}

\* Python's None.
None == "None"

(***************************************************************************)
(* Message texts                                                           *)
(***************************************************************************)

\* services.py:204 "初始化下载..."
MsgInit == "initialising download..."
\* services.py:228 "开始下载文件..."
MsgStart == "starting file download..."
\* services.py:251 "下载成功 (模拟)"
MsgDone == "download succeeded (simulated)"
\* services.py:213 ValueError("无法提取有效链接")
ErrNoLink == "cannot extract a valid link"
\* services.py:216 ValueError("无法解析作品 ID")
ErrNoId == "cannot parse the work id"
\* services.py:218 ValueError("获取 HTML 失败")
ErrNoHtml == "fetching the HTML failed"
\* services.py:220 ValueError("提取信息失败")
ErrNoInfo == "extracting the info failed"
\* services.py:258 f"下载失败，可能需要有效 Cookie: {error_msg}"
CookiePrefix == "download failed, a valid Cookie may be needed: "
\* services.py:268 "任务 ID 不存在"
MsgNotFound == "task id does not exist"

\* The word "登录" (log in) of services.py:194 and :257.
LoginWord == "login"

\* Messages an exception raised by a collaborator (Examiner, DetailPage,
\* HTMLExtractor, Cleaner, the file system) may carry.
RaisedMsgs == {"connect timeout", "Cookie expired", "please login first"}

\* The paths a finished download may produce (services.py:245-248).
Paths == {"downloaded_videos/a.mp4"}

(***************************************************************************)
(* Helpers                                                                 *)
(***************************************************************************)

\* Python's `sub in s` on strings.
Contains(s, sub) ==
    \E i \in 1..(Len(s) - Len(sub) + 1) : SubSeq(s, i, i + Len(sub) - 1) = sub

\* task_statuses[task_id] = rec
DictSet(d, k, rec) == [x \in DOMAIN d \cup {k} |-> IF x = k THEN rec ELSE d[x]]

RECURSIVE SumOver(_, _)
SumOver(f, S) ==
    IF S = {} THEN 0
    ELSE LET x == CHOOSE y \in S : TRUE IN f[x] + SumOver(f, S \ {x})

\* The positions of a perform_download coroutine: added to the request's
\* background tasks and not yet begun; suspended in examiner.run (l.212), in
\* detail_page.run (l.217), in asyncio.sleep (l.244); returned.
PCs == {"scheduled", "resolve", "fetch", "download", "done"}

CountAt(tk, id) == SumOver(tk[id], PCs)
TotalTasks(tk) == SumOver([id \in TaskIds |-> CountAt(tk, id)], TaskIds)

\* One coroutine of task id `id` moves from position `from` to position `to`.
Move(tk, id, from, to) ==
    [tk EXCEPT ![id] = [pc \in PCs |->
        IF from = to THEN tk[id][pc]
        ELSE IF pc = from THEN tk[id][pc] - 1
        ELSE IF pc = to THEN tk[id][pc] + 1
        ELSE tk[id][pc]]]

Terminal == {"completed", "failed"}

(***************************************************************************)
(* Results of the calls into the KS-Downloader submodule                   *)
(***************************************************************************)

\* A call returns a usable value ("ok"), returns an empty one ("empty": no
\* urls, no page, no record), or raises: a ValueError or another Exception,
\* with a message.
Ok == [kind |-> "ok", msg |-> ""]
Empty == [kind |-> "empty", msg |-> ""]
ValueError(m) == [kind |-> "ValueError", msg |-> m]
Exception(m) == [kind |-> "Exception", msg |-> m]
NoExc == [kind |-> "none", msg |-> ""]

CallOutcomes ==
    {Ok, Empty} \cup {ValueError(m) : m \in RaisedMsgs} \cup {Exception(m) : m \in RaisedMsgs}

\* A call whose value is not tested for emptiness (asyncio.sleep, filter_name,
\* Path.touch).
PlainOutcomes == CallOutcomes \ {Empty}

\* A call that the code reaches only when the call before it gave a usable
\* value.
NotCalled == [kind |-> "not_called", msg |-> ""]
After(before, outcomes) == IF before.kind = "ok" THEN outcomes ELSE {NotCalled}

(***************************************************************************)
(* KuaishouService.perform_download (services.py:201-264)                  *)
(***************************************************************************)

\* l.204
ProcessingRecord == [status |-> "processing", message |-> MsgInit, result_path |-> None]

\* The completed record with the path left out (result_path stays None).
CompletedRecord_NoPath(path) ==
    [status |-> "completed", message |-> MsgDone, result_path |-> None]

\* l.251
CompletedRecord(path) == [status |-> "completed", message |-> MsgDone, result_path |-> path]

\* l.256-260: the record written by `except Exception as e`.
FailedRecord(error_msg) ==
    IF Contains(error_msg, "Cookie") \/ Contains(error_msg, LoginWord)
    THEN [status |-> "failed", message |-> CookiePrefix \o error_msg, result_path |-> None]
    ELSE [status |-> "failed", message |-> error_msg, result_path |-> None]

\* l.212-216: examiner.run gave `resolved`, extract_params a detail id or none.
\* The exception these lines end with, NoExc when they pass.
download_resolve(resolved, has_detail_id) ==
    IF resolved.kind = "empty" THEN ValueError(ErrNoLink)
    ELSE IF resolved.kind # "ok" THEN resolved
    ELSE IF ~has_detail_id THEN ValueError(ErrNoId)
    ELSE NoExc

\* l.217-220: detail_page.run gave `html`, html_extractor.run gave `extracted`.
download_fetch(html, extracted) ==
    IF html.kind = "empty" THEN ValueError(ErrNoHtml)
    ELSE IF html.kind # "ok" THEN html
    ELSE IF extracted.kind = "empty" THEN ValueError(ErrNoInfo)
    ELSE IF extracted.kind # "ok" THEN extracted
    ELSE NoExc

\* l.244-249: the sleep and the creation of the file gave `made`.
download_file(made) == IF made.kind # "ok" THEN made ELSE NoExc

\* The handler as `except ValueError as e`: what is no ValueError leaves the
\* coroutine and the record stays as it was.
except_handler_ValueErrorOnly(ts, task_id, e) ==
    IF e.kind = "ValueError" THEN DictSet(ts, task_id, FailedRecord(e.msg)) ELSE ts

\* l.254-260: `except Exception as e` takes every exception of the try block,
\* the coroutine's own ValueErrors and what the collaborators raise alike.
except_handler(ts, task_id, e) == DictSet(ts, task_id, FailedRecord(e.msg))

\* main.py:206-214: the handler draws a task id, adds perform_download to the
\* background tasks and answers 202; it writes nothing to task_statuses.
request_kuaishou_download(task_id) ==
    /\ tasks' = [tasks EXCEPT ![task_id]["scheduled"] = @ + 1]
    /\ response' = [op |-> "download", task_id |-> task_id, code |-> 202,
                    body |-> [status |-> "queued", task_id |-> task_id]]
    /\ UNCHANGED <<task_statuses, info_request>>

\* l.201-212: the coroutine begins, overwrites the record of its id and
\* suspends in examiner.run.
perform_download_begin(task_id) ==
    /\ tasks[task_id]["scheduled"] > 0
    /\ task_statuses' = DictSet(task_statuses, task_id, ProcessingRecord)
    /\ tasks' = Move(tasks, task_id, "scheduled", "resolve")
    /\ UNCHANGED <<response, info_request>>

\* l.212-217: examiner.run returns or raises; when the lines pass the
\* coroutine suspends in detail_page.run, otherwise the handler runs and the
\* coroutine returns.
perform_download_resolved(task_id, resolved, has_detail_id) ==
    LET e == download_resolve(resolved, has_detail_id) IN
    /\ tasks[task_id]["resolve"] > 0
    /\ IF e = NoExc
       THEN /\ tasks' = Move(tasks, task_id, "resolve", "fetch")
            /\ UNCHANGED task_statuses
       ELSE /\ task_statuses' = except_handler(task_statuses, task_id, e)
            /\ tasks' = Move(tasks, task_id, "resolve", "done")
    /\ UNCHANGED <<response, info_request>>

\* l.217-244: detail_page.run returns or raises; when the lines pass the
\* message of the record is replaced in place (l.228) and the coroutine
\* suspends in asyncio.sleep.
perform_download_fetched(task_id, html, extracted) ==
    LET e == download_fetch(html, extracted) IN
    /\ tasks[task_id]["fetch"] > 0
    /\ IF e = NoExc
       THEN /\ task_statuses' = [task_statuses EXCEPT ![task_id].message = MsgStart]
            /\ tasks' = Move(tasks, task_id, "fetch", "download")
       ELSE /\ task_statuses' = except_handler(task_statuses, task_id, e)
            /\ tasks' = Move(tasks, task_id, "fetch", "done")
    /\ UNCHANGED <<response, info_request>>

\* l.244-264: the sleep ends; the file is named and created and the record
\* replaced by the completed one, or the handler writes the failure.
perform_download_finished(task_id, made, path) ==
    LET e == download_file(made) IN
    /\ tasks[task_id]["download"] > 0
    /\ IF e = NoExc
       THEN task_statuses' = DictSet(task_statuses, task_id, CompletedRecord(path))
       ELSE task_statuses' = except_handler(task_statuses, task_id, e)
    /\ tasks' = Move(tasks, task_id, "download", "done")
    /\ UNCHANGED <<response, info_request>>

(***************************************************************************)
(* Status lookup                                                           *)
(***************************************************************************)

\* services.py:266-268: task_statuses.get(task_id, {...}).
get_task_status(ts, task_id) ==
    IF task_id \in DOMAIN ts THEN ts[task_id]
    ELSE [status |-> "not_found", message |-> MsgNotFound]

\* The lookup as task_statuses.setdefault(task_id, {...}): the synthetic record
\* is stored.
GetTaskStatus_setdefault(task_id) ==
    /\ response' = [op |-> "get_task_status", task_id |-> task_id, code |-> 0,
                    body |-> get_task_status(task_statuses, task_id)]
    /\ task_statuses' = DictSet(task_statuses, task_id,
                                get_task_status(task_statuses, task_id))
    /\ UNCHANGED <<tasks, info_request>>

\* A caller of the service polls a task id.
GetTaskStatus(task_id) ==
    /\ response' = [op |-> "get_task_status", task_id |-> task_id, code |-> 0,
                    body |-> get_task_status(task_statuses, task_id)]
    /\ UNCHANGED <<task_statuses, tasks, info_request>>

(***************************************************************************)
(* main.py:216-232, the HTTP handler of the status lookup                  *)
(***************************************************************************)

\* main.py:134-138: StatusApiResponse(**status_data).  task_id and status are
\* required fields, message and result_path default to None; a missing
\* required field is a pydantic ValidationError.
StatusApiResponse(data) ==
    IF {"task_id", "status"} \subseteq DOMAIN data
    THEN [valid |-> TRUE,
          model |-> [task_id |-> data.task_id,
                     status |-> data.status,
                     message |-> IF "message" \in DOMAIN data THEN data.message ELSE None,
                     result_path |-> IF "result_path" \in DOMAIN data
                                     THEN data.result_path ELSE None]]
    ELSE [valid |-> FALSE, model |-> None]

\* main.py:225-232: 404 for not_found; otherwise the record is validated, and
\* a validation error leaves the handler as an unhandled exception (500).
status_endpoint(ts, task_id) ==
    LET status_data == get_task_status(ts, task_id)
        validated == StatusApiResponse(status_data)
    IN  IF status_data.status = "not_found"
        THEN [code |-> 404, body |-> None]
        ELSE IF validated.valid
        THEN [code |-> 200, body |-> validated.model]
        ELSE [code |-> 500, body |-> None]

get_download_status(task_id) ==
    /\ response' = [op |-> "get_download_status", task_id |-> task_id,
                    code |-> status_endpoint(task_statuses, task_id).code,
                    body |-> status_endpoint(task_statuses, task_id).body]
    /\ UNCHANGED <<task_statuses, tasks, info_request>>

(***************************************************************************)
(* Specification of the task registry                                      *)
(***************************************************************************)

NoResponse == [op |-> "none", task_id |-> None, code |-> 0, body |-> None]
NoRequest == [op |-> "none"]

Init ==
    /\ task_statuses = [x \in {} |-> None]
    /\ tasks = [id \in TaskIds |-> [pc \in PCs |-> 0]]
    /\ response = NoResponse
    /\ info_request = NoRequest

\* A client posts /download while the run's budget of requests lasts.
Enqueue(limit, task_id) ==
    /\ TotalTasks(tasks) < limit
    /\ request_kuaishou_download(task_id)

\* The steps of the background coroutines.
TaskStep(id) ==
    \/ perform_download_begin(id)
    \/ \E r \in CallOutcomes, d \in BOOLEAN : perform_download_resolved(id, r, d)
    \/ \E h \in CallOutcomes : \E x \in After(h, CallOutcomes) :
            perform_download_fetched(id, h, x)
    \/ \E m \in PlainOutcomes, p \in Paths : perform_download_finished(id, m, p)

\* The background tasks of at most `limit` download requests.
NextTasks(limit) ==
    \/ \E id \in TaskIds : Enqueue(limit, id)
    \/ \E id \in TaskIds : TaskStep(id)

\* Download requests, their background tasks and the status polls.
Next ==
    \/ NextTasks(MaxTasks)
    \/ \E id \in TaskIds : GetTaskStatus(id)
    \/ \E id \in TaskIds : get_download_status(id)

Spec == Init /\ [][Next]_vars

\* The background tasks alone (a poll writes neither task_statuses nor tasks),
\* fairly scheduled: the event loop resumes every coroutine whose awaited call
\* has returned, and every awaited call returns or raises (each carries the
\* session's timeout; asyncio.sleep(5) ends).
LiveSpec ==
    /\ Init
    /\ [][NextTasks(MaxTasks)]_vars
    /\ \A id \in TaskIds : WF_vars(TaskStep(id))

\* One download request more than there are workers.
MaxWorkerTasks == ks_max_workers + 1

SpecWorkers == Init /\ [][NextTasks(MaxWorkerTasks)]_vars

(***************************************************************************)
(* The metadata request: KuaishouService.get_video_metadata                *)
(* (services.py:151-196) under the /info handler (main.py:173-196)         *)
(***************************************************************************)

\* fastapi.HTTPException(status_code=...)
HTTPException(code) == [kind |-> "HTTPException", msg |-> "", status_code |-> code]

\* One request: what examiner.run, extract_params, detail_page.run and
\* html_extractor.run give for its url, and where its coroutine stands:
\* "arrived" (the handler has not run yet), "resolve" (suspended in await
\* examiner.run, l.155), "fetch" (suspended in await detail_page.run, l.168),
\* "done" (answered).
InfoRequests ==
    {[op |-> "info", pc |-> "arrived", resolved |-> r, has_detail_id |-> d,
      html |-> h, extracted |-> x] :
        r \in CallOutcomes, d \in BOOLEAN, h \in CallOutcomes, x \in CallOutcomes}

\* l.154-181: the try block.  The exception it ends with, NoExc when the
\* record was extracted and mapped.
metadata_try(req) ==
    IF req.resolved.kind = "empty" THEN ValueError("no valid link")
    ELSE IF req.resolved.kind # "ok" THEN req.resolved
    ELSE IF ~req.has_detail_id THEN ValueError("no work id")
    ELSE IF req.html.kind = "empty" THEN HTTPException(503)
    ELSE IF req.html.kind # "ok" THEN req.html
    ELSE IF req.extracted.kind = "empty" THEN ValueError("no info")
    ELSE IF req.extracted.kind # "ok" THEN req.extracted
    ELSE NoExc

\* l.183-196: the except clauses, in their order.  The status code of the
\* HTTPException that leaves the service (200: the mapped record is returned).
get_video_metadata(req) ==
    LET e == metadata_try(req) IN
    IF e = NoExc THEN 200
    ELSE IF e.kind = "ValueError" THEN 400
    ELSE IF e.kind = "HTTPException" THEN e.status_code
    ELSE IF Contains(e.msg, "Cookie") \/ Contains(e.msg, LoginWord) THEN 401
    ELSE 500

\* The handler's answer (main.py:183-196): it passes the service's
\* HTTPException on.
info_response(req) ==
    [op |-> "info", task_id |-> None, code |-> get_video_metadata(req), body |-> None]

\* main.py:181-183, services.py:153-155: the handler starts, calls the service
\* and the coroutine suspends in examiner.run.
get_video_metadata_begin ==
    /\ info_request.op = "info"
    /\ info_request.pc = "arrived"
    /\ info_request' = [info_request EXCEPT !.pc = "resolve"]
    /\ UNCHANGED <<task_statuses, tasks, response>>

\* l.155-168: examiner.run returns or raises.  When the link resolves and
\* carries a work id the coroutine suspends again, in detail_page.run;
\* otherwise the except clauses answer the request.
get_video_metadata_resolved ==
    /\ info_request.op = "info"
    /\ info_request.pc = "resolve"
    /\ IF info_request.resolved.kind = "ok" /\ info_request.has_detail_id
       THEN /\ info_request' = [info_request EXCEPT !.pc = "fetch"]
            /\ UNCHANGED response
       ELSE /\ info_request' = [info_request EXCEPT !.pc = "done"]
            /\ response' = info_response(info_request)
    /\ UNCHANGED <<task_statuses, tasks>>

\* l.168-196: detail_page.run returns or raises; the record is extracted and
\* mapped, or the except clauses answer the request.
get_video_metadata_fetched ==
    /\ info_request.op = "info"
    /\ info_request.pc = "fetch"
    /\ info_request' = [info_request EXCEPT !.pc = "done"]
    /\ response' = info_response(info_request)
    /\ UNCHANGED <<task_statuses, tasks>>

\* main.py:173-196: the request, from one suspension of its coroutine to the
\* next.
get_kuaishou_info_only ==
    \/ get_video_metadata_begin
    \/ get_video_metadata_resolved
    \/ get_video_metadata_fetched

InitInfo ==
    /\ task_statuses = [x \in {} |-> None]
    /\ tasks = [id \in TaskIds |-> [pc \in PCs |-> 0]]
    /\ response = NoResponse
    /\ info_request \in InfoRequests

\* How many download requests arrive while the metadata request is served.
MaxInfoTasks == 1

\* The event loop runs the download requests and their background coroutines
\* between the segments of the metadata request.
NextInfo ==
    \/ get_kuaishou_info_only
    \/ NextTasks(MaxInfoTasks)

SpecInfo == InitInfo /\ [][NextInfo]_vars

(***************************************************************************)
(* Python values of the mapper                                             *)
(***************************************************************************)

\* Bound on the length of a raw count string.
MaxStrLen == 4

\* Bound on the length of a raw duration string.
MaxDurLen == 7

RECURSIVE Pow10(_)
Pow10(d) == IF d = 0 THEN 1 ELSE 10 * Pow10(d - 1)

\* Python ints are unbounded and the model's are 32 bits wide: an int is kept
\* as hi * Limb + lo, hi and lo of one sign and |lo| < Limb.
Limb == Pow10(8)

\* A value as the code's isinstance tests see it: None (also what dict.get
\* gives for an absent key), an int, or a str (the sequence of its characters).
PyNone == [t |-> "none"]
BigInt(hi, lo) == [t |-> "int", hi |-> hi, lo |-> lo]
PyInt(n) == BigInt(0, n)
PyStr(s) == [t |-> "str", v |-> s]

\* An exception that leaves the function (one its except clause does not name).
Raised(name) == [t |-> "raised", v |-> name]

\* The characters of raw count strings. "m" renders the ten-thousand marker
\* (U+4E07), "y" the hundred-million marker (U+4EBF); "x" is a character that
\* belongs to no numeral.
CountChars == {"0", "1", "2", "3", ".", "-", " ", "w", "W", "m", "y", "b", "x"}

\* The characters of raw duration strings.
DurationChars == {"0", "1", ":", "-", " ", "x"}

Strings(chars, n) == UNION {[1..k -> chars] : k \in 0..n}

Digits10 == <<"0", "1", "2", "3", "4", "5", "6", "7", "8", "9">>
IsDigit(c) == \E i \in 1..10 : Digits10[i] = c
DigitVal(c) == (CHOOSE i \in 1..10 : Digits10[i] = c) - 1

\* c in s, for a single character c.
str_in(c, s) == \E i \in 1..Len(s) : s[i] = c

\* str.lower(): of the model's characters only "W" has a lower case.
str_lower(s) == [i \in 1..Len(s) |-> IF s[i] = "W" THEN "w" ELSE s[i]]

\* str.strip(): leading and trailing white space goes.
RECURSIVE str_lstrip(_)
str_lstrip(s) == IF s # <<>> /\ Head(s) = " " THEN str_lstrip(Tail(s)) ELSE s

RECURSIVE str_rstrip(_)
str_rstrip(s) ==
    IF s # <<>> /\ s[Len(s)] = " " THEN str_rstrip(SubSeq(s, 1, Len(s) - 1)) ELSE s

str_strip(s) == str_rstrip(str_lstrip(s))

\* s.replace(c, ''): every occurrence of the character c goes.
RECURSIVE str_replace(_, _)
str_replace(s, c) ==
    IF s = <<>> THEN <<>>
    ELSE IF Head(s) = c THEN str_replace(Tail(s), c)
    ELSE <<Head(s)>> \o str_replace(Tail(s), c)

\* The number a string of digits writes; 0 for the empty string.
RECURSIVE DigitsValue(_)
DigitsValue(s) ==
    IF s = <<>> THEN 0
    ELSE 10 * DigitsValue(SubSeq(s, 1, Len(s) - 1)) + DigitVal(s[Len(s)])

\* The position of the first c in s, 0 when there is none.
IndexOf(c, s) == IF str_in(c, s) THEN CHOOSE i \in 1..Len(s) : s[i] = c /\ \A j \in 1..(i - 1) : s[j] # c
                 ELSE 0

\* float(s) over the model's characters: white space around the numeral is
\* dropped, then an optional "-", then digits with at most one "." and at
\* least one digit. The value is kept exactly, as neg, digits n and the number
\* k of digits after the point (n / 10^k); anything else is a ValueError.
float(s) ==
    LET stripped == str_strip(s)
        neg == stripped # <<>> /\ Head(stripped) = "-"
        body == IF neg THEN Tail(stripped) ELSE stripped
        dot == IndexOf(".", body)
        digits == str_replace(body, ".")
    IN  IF /\ digits # <<>>
           /\ \A i \in 1..Len(digits) : IsDigit(digits[i])
           /\ Len(body) - Len(digits) <= 1
        THEN [t |-> "float", neg |-> neg, n |-> DigitsValue(digits),
              k |-> IF dot = 0 THEN 0 ELSE Len(body) - dot]
        ELSE Raised("ValueError")

\* The numerals <<n, k, e>> for which the IEEE-754 double nearest to n / 10^k,
\* times 10^e and rounded to a double again, lies below the exact product, so
\* that int() of it is one less in magnitude (float("2.3") * 100000000 is
\* 229999999.99999997). Complete for numerals of up to four characters over
\* the digits 0 to 3.
FloatShortfall ==
    { <<23, 1, 8>>, <<102, 1, 8>>, <<102, 3, 4>>, <<113, 2, 4>>, <<113, 2, 8>>,
      <<201, 2, 4>>, <<201, 2, 8>>, <<203, 2, 4>>, <<203, 2, 8>>, <<230, 2, 8>>,
      <<232, 2, 8>>, <<301, 2, 4>>, <<303, 2, 4>>, <<323, 1, 8>>, <<333, 1, 8>> }

\* int(num * multiplier) for a float num and a multiplier that is a power of
\* ten: the product is cut towards zero.
int_of_product(num, multiplier) ==
    LET e == CHOOSE x \in 0..8 : Pow10(x) = multiplier
        d == e - num.k
        hi == IF d >= 0 THEN num.n \div Pow10(8 - d) ELSE 0
        lo == IF d >= 0 THEN (num.n % Pow10(8 - d)) * Pow10(d) ELSE num.n \div Pow10(0 - d)
        short == IF <<num.n, num.k, e>> \in FloatShortfall THEN 1 ELSE 0
        mhi == IF short = 1 /\ lo = 0 THEN hi - 1 ELSE hi
        mlo == IF short = 1 /\ lo = 0 THEN Limb - 1 ELSE lo - short
    IN  IF num.neg THEN BigInt(0 - mhi, 0 - mlo) ELSE BigInt(mhi, mlo)

\* services.py:360-383
_parse_count_with_unit(count_str) ==
    IF count_str.t = "int"
    THEN IF count_str.hi >= 0 /\ count_str.lo >= 0 THEN count_str ELSE PyNone
    ELSE IF count_str.t # "str" THEN PyNone
    ELSE LET s == str_lower(str_strip(count_str.v))
             wan == str_in("m", s) \/ str_in("w", s)
             yi == str_in("y", s) \/ str_in("b", s)
             num_part == IF wan THEN str_strip(str_replace(str_replace(s, "m"), "w"))
                         ELSE IF yi THEN str_strip(str_replace(str_replace(s, "y"), "b"))
                         ELSE s
             multiplier == IF wan THEN 10000 ELSE IF yi THEN 100000000 ELSE 1
             num == float(num_part)
         IN  IF num.t = "raised" THEN PyNone ELSE int_of_product(num, multiplier)

\* int(s) for a str: white space around is dropped, then an optional "-",
\* then one digit or more; anything else is a ValueError.
int_of_str(s) ==
    LET stripped == str_strip(s)
        neg == stripped # <<>> /\ Head(stripped) = "-"
        body == IF neg THEN Tail(stripped) ELSE stripped
    IN  IF body # <<>> /\ \A i \in 1..Len(body) : IsDigit(body[i])
        THEN PyInt(IF neg THEN 0 - DigitsValue(body) ELSE DigitsValue(body))
        ELSE Raised("ValueError")

\* s.split(c): the pieces between the occurrences of c, empty ones included.
RECURSIVE str_split(_, _)
str_split(s, c) ==
    LET i == IndexOf(c, s)
    IN  IF i = 0 THEN <<s>>
        ELSE <<SubSeq(s, 1, i - 1)>> \o str_split(SubSeq(s, i + 1, Len(s)), c)

\* services.py:342-357
_parse_duration(duration_str) ==
    IF duration_str.t = "int"
    THEN IF duration_str.hi > 0 \/ duration_str.lo > 0
         THEN BigInt(duration_str.hi \div 1000,
                     (duration_str.hi % 1000) * Pow10(5) + duration_str.lo \div 1000)
         ELSE PyInt(0)
    ELSE IF duration_str.t = "str" /\ str_in(":", duration_str.v)
    THEN LET pieces == str_split(duration_str.v, ":")
             parts == [i \in 1..Len(pieces) |-> int_of_str(pieces[i])]
         IN  IF \E i \in 1..Len(parts) : parts[i].t = "raised" THEN PyNone
             ELSE IF Len(parts) = 3
                  THEN PyInt(parts[1].lo * 3600 + parts[2].lo * 60 + parts[3].lo)
             ELSE IF Len(parts) = 2 THEN PyInt(parts[1].lo * 60 + parts[2].lo)
             ELSE IF Len(parts) = 1 THEN parts[1]
             ELSE PyNone
    ELSE PyNone

(***************************************************************************)
(* The mapper                                                              *)
(***************************************************************************)

\* The values of photoType the mapper tests for: PhotoTypeImage renders
\* U+56FE U+7247 (l.285), PhotoTypeVideo renders U+89C6 U+9891 (l.288).
PhotoTypeImage == "tupian"
PhotoTypeVideo == "shipin"

\* `x or 0` for an int or None x.
or_0(x) == IF x = PyNone \/ x = PyInt(0) THEN PyInt(0) ELSE x

\* l.319-325: `parsed if parsed is not None else 0`.
if_not_None_else_0(parsed) == IF parsed # PyNone THEN parsed ELSE PyInt(0)

\* services.py:272-339. extracted_info gives photoType (None when the key is
\* absent), download (the list, empty when the key is absent), the four raw
\* counts and the raw duration (PyNone when absent); of the dict returned the
\* model keeps type, statistics and the three fields of media that are
\* computed. The empty dict is the empty function.
_map_extracted_to_dict(extracted_info) ==
    IF extracted_info = <<>> THEN <<>>
    ELSE LET downloads == extracted_info.download
             photo_type == extracted_info.photoType
             is_image == photo_type = PhotoTypeImage /\ downloads # <<>>
             is_video == photo_type = PhotoTypeVideo /\ downloads # <<>>
             media_type == IF is_image THEN "image" ELSE "video"
             image_urls == IF is_image THEN downloads ELSE <<>>
             video_url == IF ~is_image /\ is_video THEN downloads[1] ELSE ""
             parsed_like_count == _parse_count_with_unit(extracted_info.realLikeCount)
             parsed_comment_count == _parse_count_with_unit(extracted_info.commentCount)
             parsed_share_count == _parse_count_with_unit(extracted_info.shareCount)
             parsed_play_count == _parse_count_with_unit(extracted_info.viewCount)
         IN  [type |-> media_type,
              statistics |-> [like_count |-> if_not_None_else_0(parsed_like_count),
                              comment_count |-> if_not_None_else_0(parsed_comment_count),
                              share_count |-> if_not_None_else_0(parsed_share_count),
                              collect_count |-> PyInt(0),
                              play_count |-> if_not_None_else_0(parsed_play_count)],
              media |-> [video_url |-> video_url,
                         image_urls |-> image_urls,
                         duration |-> or_0(_parse_duration(extracted_info.duration))]]

(***************************************************************************)
(* Calls of the mapper and of its two parsers                              *)
(***************************************************************************)

\* The characters of a string literal, one by one.
Chars(lit) == [i \in 1..Len(lit) |-> SubSeq(lit, i, i)]

\* What realLikeCount, commentCount, shareCount and viewCount may hold.
CountInputs ==
    {PyNone} \cup {PyInt(n) : n \in -2..2}
             \cup {PyStr(s) : s \in Strings(CountChars, MaxStrLen)}

\* What duration may hold.
DurationInputs ==
    {PyNone} \cup {PyInt(n) : n \in {-1500, 0, 999, 1000, 61000}}
             \cup {PyStr(s) : s \in Strings(DurationChars, MaxDurLen)}

\* Raw counts of each kind the page gives: absent, an int of either sign, a
\* plain numeral, one with a unit, one with a sign, and no numeral at all.
CountSamples ==
    {PyNone, PyInt(3), PyInt(-3), PyStr(Chars("12")), PyStr(Chars("1.5w")),
     PyStr(Chars("-5")), PyStr(Chars("x"))}

DurationSamples == {PyNone, PyInt(61000), PyStr(Chars("1:01"))}

\* photoType: the two values the mapper knows, another one, and the key absent.
PhotoTypes == {PhotoTypeImage, PhotoTypeVideo, "live", None}

\* download: no URL, one, two.
Downloads == {<<>>, <<"u1">>, <<"u1", "u2">>}

ExtractedInfos ==
    {<<>>} \cup [photoType : PhotoTypes, download : Downloads,
                 realLikeCount : CountSamples, commentCount : CountSamples,
                 shareCount : CountSamples, viewCount : CountSamples,
                 duration : DurationSamples]

Result(op, value) == [op |-> op, task_id |-> None, code |-> 0, body |-> value]

\* self._parse_count_with_unit(value), l.293-296.
ParseCountWithUnit ==
    /\ info_request.op = "parse_count"
    /\ response = NoResponse
    /\ response' = Result("parse_count", _parse_count_with_unit(info_request.value))
    /\ UNCHANGED <<task_statuses, tasks, info_request>>

InitCount ==
    /\ task_statuses = [x \in {} |-> None]
    /\ tasks = [id \in TaskIds |-> [pc \in PCs |-> 0]]
    /\ response = NoResponse
    /\ info_request \in {[op |-> "parse_count", value |-> v] : v \in CountInputs}

NextCount == ParseCountWithUnit

SpecCount == InitCount /\ [][NextCount]_vars

\* self._parse_duration(value), l.329.
ParseDuration ==
    /\ info_request.op = "parse_duration"
    /\ response = NoResponse
    /\ response' = Result("parse_duration", _parse_duration(info_request.value))
    /\ UNCHANGED <<task_statuses, tasks, info_request>>

InitDuration ==
    /\ task_statuses = [x \in {} |-> None]
    /\ tasks = [id \in TaskIds |-> [pc \in PCs |-> 0]]
    /\ response = NoResponse
    /\ info_request \in {[op |-> "parse_duration", value |-> v] : v \in DurationInputs}

NextDuration == ParseDuration

SpecDuration == InitDuration /\ [][NextDuration]_vars

\* self._map_extracted_to_dict(extracted_info, url), l.180.
MapExtractedToDict ==
    /\ info_request.op = "map"
    /\ response = NoResponse
    /\ response' = Result("map", _map_extracted_to_dict(info_request.extracted_info))
    /\ UNCHANGED <<task_statuses, tasks, info_request>>

InitMap ==
    /\ task_statuses = [x \in {} |-> None]
    /\ tasks = [id \in TaskIds |-> [pc \in PCs |-> 0]]
    /\ response = NoResponse
    /\ info_request \in {[op |-> "map", extracted_info |-> x] : x \in ExtractedInfos}

NextMap == MapExtractedToDict

SpecMap == InitMap /\ [][NextMap]_vars

(***************************************************************************)
(* Properties of the task registry                                         *)
(***************************************************************************)

StatusOf(ts, id) == IF id \in DOMAIN ts THEN ts[id].status ELSE "absent"

\* Coroutines of task id `id` that have not returned.
Active(id) == tasks[id]["scheduled"] + tasks[id]["resolve"]
                + tasks[id]["fetch"] + tasks[id]["download"]

\* Coroutines of task id `id` between their first and their last write.
Writers(id) == tasks[id]["resolve"] + tasks[id]["fetch"] + tasks[id]["download"]

\* A step in which a coroutine of task id `id` returns.
Returns(id) == tasks'[id]["done"] = tasks[id]["done"] + 1

\* A step in which a coroutine of task id `id` returns from l.251, its file made.
Succeeds(id) == \E p \in Paths : perform_download_finished(id, Ok, p)

\* C1: once /download has answered with task id t, a status lookup of t made
\* before t is terminal returns status queued or processing, never not_found.
C1_EnqueuedIsObservable ==
    [][\A id \in TaskIds :
        (CountAt(tasks, id) > 0 /\ StatusOf(task_statuses, id) \notin Terminal
            /\ GetTaskStatus(id))
        => response'.body.status \in {"queued", "processing"}]_vars

\* C2: a record whose status is completed or failed is never changed again.
C2_TerminalRecordIsFinal ==
    [][\A id \in DOMAIN task_statuses :
        task_statuses[id].status \in Terminal
        => (id \in DOMAIN task_statuses' /\ task_statuses'[id] = task_statuses[id])]_vars

\* C3: the statuses stored for a task id follow queued -> processing ->
\* {completed, failed}: queued is stored when the download is requested,
\* processing follows only queued, completed and failed follow only processing.
C3_LifecycleOrder ==
    [][\A id \in TaskIds :
        /\ request_kuaishou_download(id) => StatusOf(task_statuses', id) = "queued"
        /\ (StatusOf(task_statuses', id) = "processing"
                /\ StatusOf(task_statuses, id) # "processing")
            => StatusOf(task_statuses, id) = "queued"
        /\ (StatusOf(task_statuses', id) \in Terminal
                /\ StatusOf(task_statuses', id) # StatusOf(task_statuses, id))
            => StatusOf(task_statuses, id) = "processing"]_vars

\* C4: whatever fails in a background download (a call returning nothing, the
\* missing content id, any raised exception), the coroutine returns and leaves
\* the record of its task id failed, with a message and no result path.
C4_FailureIsRecorded ==
    [][\A id \in TaskIds :
        /\ Active(id)' < Active(id) => Returns(id)
        /\ (Returns(id) /\ ~Succeeds(id))
            => /\ StatusOf(task_statuses', id) = "failed"
               /\ task_statuses'[id].message \in STRING \ {None}
               /\ task_statuses'[id].result_path = None]_vars

C4_Witness ==
    \E id \in DOMAIN task_statuses :
        /\ task_statuses[id].status = "failed"
        /\ task_statuses[id].message = CookiePrefix \o "Cookie expired"
        /\ tasks[id]["done"] > 0

\* C5: under fair scheduling every download task that was scheduled returns,
\* and the record of its task id is then completed or failed.
C5_ScheduledTaskEnds ==
    \A id \in TaskIds :
        (Active(id) > 0)
        ~> (Active(id) = 0 /\ StatusOf(task_statuses, id) \in Terminal)

C5_Witness ==
    \E id \in TaskIds :
        /\ tasks[id]["done"] > 1
        /\ Active(id) = 0
        /\ StatusOf(task_statuses, id) = "completed"

\* C6: the lookup of a task id that is not in the registry returns the
\* synthetic not_found record and leaves the registry as it was; no stored
\* record has status not_found.
C6_UnknownLookup ==
    /\ [][\A id \in TaskIds :
            (id \notin DOMAIN task_statuses /\ GetTaskStatus(id))
            => /\ response'.op = "get_task_status"
               /\ response'.body.status = "not_found"
               /\ task_statuses' = task_statuses]_vars
    /\ [](\A id \in DOMAIN task_statuses : task_statuses[id].status # "not_found")

C6_Witness ==
    /\ response.op = "get_task_status"
    /\ response.body.status = "not_found"
    /\ response.task_id \notin DOMAIN task_statuses
    /\ task_statuses # << >>

StatusFields == {"task_id", "status", "message", "result_path"}
Statuses == {"queued", "processing", "completed", "failed", "not_found"}

\* C7: every record a status lookup returns has the four fields task_id (the
\* id asked for), status, message and result_path, with a status of the five,
\* and the status endpoint answers every lookup of a known id with it.
C7_StatusShape ==
    [][\A id \in TaskIds :
        /\ GetTaskStatus(id)
            => /\ DOMAIN response'.body = StatusFields
               /\ response'.body.task_id = id
               /\ response'.body.status \in Statuses
        /\ (id \in DOMAIN task_statuses /\ get_download_status(id))
            => /\ response'.code = 200
               /\ DOMAIN response'.body = StatusFields]_vars

\* C8: a download begun under a task id that the registry already holds is
\* rejected and leaves the record as it was, and no two download tasks write
\* to one task id at a time.
C8_DuplicateRejected ==
    /\ [][\A id \in TaskIds :
            (id \in DOMAIN task_statuses /\ perform_download_begin(id))
            => task_statuses' = task_statuses]_vars
    /\ [](\A id \in TaskIds : Writers(id) <= 1)

\* Downloads in flight: coroutines between the start and the end of their
\* download step (l.228-251).
InFlight == SumOver([id \in TaskIds |-> tasks[id]["download"]], TaskIds)

\* C9: the downloads in flight never exceed the worker limit.
C9_WorkerLimit == InFlight <= ks_max_workers

(***************************************************************************)
(* Properties of the metadata request                                      *)
(***************************************************************************)

\* The stage of the request that failed, and what it failed with.
FailedStage(req) ==
    IF req.resolved.kind # "ok" \/ ~req.has_detail_id THEN "resolve"
    ELSE IF req.html.kind # "ok" THEN "fetch"
    ELSE IF req.extracted.kind # "ok" THEN "extract"
    ELSE "none"

FailedWith(req) ==
    IF req.resolved.kind # "ok" THEN req.resolved
    ELSE IF ~req.has_detail_id THEN Empty
    ELSE IF req.html.kind # "ok" THEN req.html
    ELSE req.extracted

\* A raised error that speaks of the credential.
AuthFailure(req) ==
    /\ FailedWith(req).kind \in {"ValueError", "Exception"}
    /\ Contains(FailedWith(req).msg, "Cookie") \/ Contains(FailedWith(req).msg, LoginWord)

\* C10: the metadata request answers a failure with the category of the
\* stage that failed: resolution and extraction 400, fetch (an empty body or a
\* raised error) 503, an authentication failure 401; 500 only otherwise.
\* Read in the code's favour where the claim leaves room: a raised error that
\* speaks of the credential may be answered 401 or with its stage's code, and
\* an Exception that is no ValueError, raised while resolving or extracting,
\* may count as unclassified (500).
C10_FailureCategory ==
    info_request.op = "info" /\ info_request.pc = "done" /\ response.op = "info"
    => LET stage == FailedStage(info_request)
           own == IF stage = "fetch" THEN {503}
                  ELSE IF FailedWith(info_request).kind = "Exception" THEN {400, 500}
                  ELSE {400}
       IN  IF stage = "none" THEN response.code = 200
           ELSE IF AuthFailure(info_request) THEN response.code \in {401} \cup own
           ELSE response.code \in own

\* C16: in every reachable state of the registry a stored record has a
\* result_path other than None exactly when its status is completed:
\* processing and failed records carry None, a completed record carries the
\* path of the file that was produced.
C16_ResultPathIffCompleted ==
    \A id \in DOMAIN task_statuses :
        /\ (task_statuses[id].result_path # None) <=> (task_statuses[id].status = "completed")
        /\ task_statuses[id].status = "completed" => task_statuses[id].result_path \in Paths

\* Two ids are stored, one completed with its path and one failed.
C16_Witness ==
    \E a, b \in DOMAIN task_statuses :
        /\ task_statuses[a].status = "completed"
        /\ task_statuses[a].result_path \in Paths
        /\ task_statuses[b].status = "failed"
        /\ task_statuses[b].result_path = None

(***************************************************************************)
(* Properties of the mapper                                                *)
(***************************************************************************)

\* The record handed to the mapper and the dict it returned.
Mapped == response.op = "map" /\ response.body # <<>>

\* C11: of every mapped output exactly one of media.video_url and
\* media.image_urls is non-empty, and the output type alone says which: type
\* video has a video_url and no image_urls, type image has image_urls and no
\* video_url. Stated for the records that carry a download URL, the others
\* having nothing to fill either field with.
C11_MediaExclusive ==
    Mapped /\ info_request.extracted_info.download # <<>>
    => LET media == response.body.media
       IN  IF response.body.type = "video"
           THEN media.video_url # "" /\ media.image_urls = <<>>
           ELSE /\ response.body.type = "image"
                /\ media.video_url = "" /\ media.image_urls # <<>>

\* The count operation as the specification words it: an int passes when it
\* is not negative; a string is trimmed and lowercased, a unit marker at its
\* end gives the factor and is cut off, and what remains is read as a numeral
\* and multiplied; whatever does not parse gives None.
parse_count_reference(value) ==
    IF value.t = "int"
    THEN IF value.hi >= 0 /\ value.lo >= 0 THEN value ELSE PyNone
    ELSE IF value.t # "str" THEN PyNone
    ELSE LET s == str_lower(str_strip(value.v))
             last == IF s = <<>> THEN "" ELSE s[Len(s)]
             factor == IF last \in {"m", "w"} THEN 10000
                       ELSE IF last \in {"y", "b"} THEN 100000000
                       ELSE 1
             numeral == IF factor = 1 THEN s ELSE SubSeq(s, 1, Len(s) - 1)
             num == float(numeral)
         IN  IF num.t = "raised" THEN PyNone ELSE int_of_product(num, factor)

NonNegativeInt(x) == x.t = "int" /\ x.hi >= 0 /\ x.lo >= 0

\* The raw value of each statistics field that is computed from one.
RawOf(extracted_info) ==
    [like_count |-> extracted_info.realLikeCount,
     comment_count |-> extracted_info.commentCount,
     share_count |-> extracted_info.shareCount,
     play_count |-> extracted_info.viewCount]

\* C12: whatever the raw counts are, every statistics field of the mapped
\* output (like, comment, share, collect, play) is an integer that is not
\* negative, and it is 0 when the raw value is absent or does not parse.
C12_StatisticsNonNegative ==
    Mapped
    => LET statistics == response.body.statistics
           raw == RawOf(info_request.extracted_info)
       IN  /\ \A f \in DOMAIN statistics : NonNegativeInt(statistics[f])
           /\ \A f \in DOMAIN raw :
                  (raw[f] = PyNone \/ (raw[f].t = "str" /\ parse_count_reference(raw[f]) = PyNone))
                  => statistics[f] = PyInt(0)

\* C13: the count parser returns what the reference operation returns: a
\* non-negative int itself and None for a negative one; for a string the
\* numeral before a ten-thousand or hundred-million suffix times 10,000 or
\* 100,000,000, cut to an integer (without suffix the numeral itself); None,
\* never 0, for whatever does not parse.
C13_CountAgreesWithReference ==
    response.op = "parse_count"
    => response.body = parse_count_reference(info_request.value)

\* The duration operation as the specification words it: an int is
\* milliseconds; a string is split on ":" and one, two or three numeric
\* components are seconds, minutes and seconds, hours, minutes and seconds.
parse_duration_reference(value) ==
    IF value.t = "int"
    THEN IF value.hi = 0 /\ value.lo > 0 THEN PyInt(value.lo \div 1000) ELSE PyInt(0)
    ELSE IF value.t # "str" THEN PyNone
    ELSE LET pieces == str_split(value.v, ":")
             parts == [i \in 1..Len(pieces) |-> int_of_str(pieces[i])]
         IN  IF \E i \in 1..Len(parts) : parts[i].t = "raised" THEN PyNone
             ELSE IF Len(parts) = 1 THEN parts[1]
             ELSE IF Len(parts) = 2 THEN PyInt(parts[1].lo * 60 + parts[2].lo)
             ELSE IF Len(parts) = 3
                  THEN PyInt(parts[1].lo * 3600 + parts[2].lo * 60 + parts[3].lo)
             ELSE PyNone

\* C14: the duration parser returns what the reference operation returns: an
\* int is milliseconds and gives the value div 1000, 0 when it is not
\* positive; a string of one, two or three numeric components split on ":"
\* gives seconds, m*60+s, h*3600+m*60+s; any other number of components, or a
\* component that is no number, gives None.
C14_DurationAgreesWithReference ==
    response.op = "parse_duration"
    => response.body = parse_duration_reference(info_request.value)

\* C15: when photoType says image gallery and the download list is not empty
\* the output has type image and image_urls is the whole list; in every other
\* case (photoType video, unknown or absent, or an empty list) the output has
\* type video, and video_url is the first download URL whenever the list is
\* not empty.
C15_TypeInference ==
    Mapped
    => LET e == info_request.extracted_info
           out == response.body
       IN  IF e.photoType = PhotoTypeImage /\ e.download # <<>>
           THEN out.type = "image" /\ out.media.image_urls = e.download
           ELSE /\ out.type = "video"
                /\ e.download # <<>> => out.media.video_url = e.download[1]

====
